---- MODULE Spec2Model ----
(***************************************************************************)
(* Model of the cache-access layer of the FastAPI Redis cache API:         *)
(* EntraIDCredentialProvider (token refresh), RedisClient (lazy client      *)
(* singleton and the get/set/delete/health_check facade) and the HTTP      *)
(* handlers of main.py.                                                     *)
(*                                                                         *)
(* Scheduling.  Every endpoint is an `async def` that runs on the single   *)
(* event loop, and neither the endpoints nor the RedisClient coroutines    *)
(* contain an await other than the call of the coroutine itself: the redis *)
(* client and the azure credential are the synchronous ones.  A handler    *)
(* therefore runs from its first to its last statement without another     *)
(* handler in between.  Requests are concurrent in that several can be     *)
(* pending at once and are served in any order; each handler is one step.  *)
(***************************************************************************)
EXTENDS Integers, FiniteSets, Sequences, TLC

\* ---------------------------------------------------------------- bounds
MaxHandles == 2
MaxTokens == 2
MaxTicks == 1

Callers == {"c1", "c2"}
Keys == {"k1", "k2"}
Values == {"v1", "v2"}
TickSizes == {100}
TokenLifetimes == {300, 400}
TTLs == {100}

\* Strings of 256 and of 10001 characters: one more than a key and a value
\* may have.
K16 == "0123456789abcdef"
K64 == K16 \o K16 \o K16 \o K16
LongKey == K64 \o K64 \o K64 \o K64
V100 == K64 \o "0123456789abcdef0123456789abcdef0123"
V1000 == V100 \o V100 \o V100 \o V100 \o V100 \o V100 \o V100 \o V100
           \o V100 \o V100
LongValue == V1000 \o V1000 \o V1000 \o V1000 \o V1000 \o V1000 \o V1000
               \o V1000 \o V1000 \o V1000 \o "x"
EmptyKey == ""
BadTTL == -1

\* ------------------------------------------------------- program constants
RefreshBuffer == 300
NoHandle == 0
NoToken == 0
NoTTL == 0
NoValue == "None"
NoKey == "-"
default_key == "default"
MinKeyLen == 1
MaxKeyLen == 255
MaxValueLen == 10000
MinTTL == 1
ValidationStatus == 422

VARIABLES
  use_entraid,   \* settings.redis_use_entraid, fixed for the process
  client,        \* RedisClient._client: NoHandle or the id of a handle
  live,          \* handles constructed and not closed
  nextHandle,    \* number of handles constructed so far
  connected,     \* the cached handle holds an authenticated connection
  token,         \* EntraIDCredentialProvider._token of the cached handle
  token_expiry,  \* EntraIDCredentialProvider._token_expiry
  issued,        \* number of tokens the identity backend has issued
  now,           \* time.time()
  storeUp,       \* the remote store is reachable
  store,         \* contents of the remote store
  pc,            \* per caller: no request, or a request waiting to be served
  cohort,        \* callers whose requests were pending at the same moment
  co,            \* what the requests of the cohort did, added up
  last,          \* the response of the handler that ran in the last step
  acq,           \* the _get_client call made in the last step
  cred           \* the get_credentials call made in the last step

vars == <<use_entraid, client, live, nextHandle, connected, token,
          token_expiry, issued, now, storeUp, store, pc, cohort, co,
          last, acq, cred>>

\* ------------------------------------------------------------ token provider
NoCred == [called |-> FALSE, backend |-> FALSE, failed |-> FALSE,
           raised |-> FALSE, ret |-> NoToken, exp |-> 0]

\* Variants of get_credentials with a slip in it, for the sensitivity runs.
\* The window test without the 300 s buffer.
get_credentials_NoBuffer(p, e) ==
  IF p.token = NoToken \/ e.now >= p.token_expiry
  THEN IF e.idpOk
       THEN [token |-> e.fresh, token_expiry |-> e.now + e.life,
             raised |-> FALSE, backend |-> TRUE, ret |-> e.fresh]
       ELSE [token |-> p.token, token_expiry |-> p.token_expiry,
             raised |-> TRUE, backend |-> TRUE, ret |-> NoToken]
  ELSE [token |-> p.token, token_expiry |-> p.token_expiry,
        raised |-> FALSE, backend |-> FALSE, ret |-> p.token]

\* No window test: every call asks the identity backend.
get_credentials_Always(p, e) ==
  IF e.idpOk
  THEN [token |-> e.fresh, token_expiry |-> e.now + e.life,
        raised |-> FALSE, backend |-> TRUE, ret |-> e.fresh]
  ELSE [token |-> p.token, token_expiry |-> p.token_expiry,
        raised |-> TRUE, backend |-> TRUE, ret |-> NoToken]

\* The new token is returned but not kept.
get_credentials_ForgetsToken(p, e) ==
  IF p.token = NoToken \/ e.now >= p.token_expiry - RefreshBuffer
  THEN IF e.idpOk
       THEN [token |-> p.token, token_expiry |-> e.now + e.life,
             raised |-> FALSE, backend |-> TRUE, ret |-> e.fresh]
       ELSE [token |-> p.token, token_expiry |-> p.token_expiry,
             raised |-> TRUE, backend |-> TRUE, ret |-> NoToken]
  ELSE [token |-> p.token, token_expiry |-> p.token_expiry,
        raised |-> FALSE, backend |-> FALSE, ret |-> p.token]

\* A failed refresh falls back to the held token.
get_credentials_StaleOnFailure(p, e) ==
  IF p.token = NoToken \/ e.now >= p.token_expiry - RefreshBuffer
  THEN IF e.idpOk
       THEN [token |-> e.fresh, token_expiry |-> e.now + e.life,
             raised |-> FALSE, backend |-> TRUE, ret |-> e.fresh]
       ELSE [token |-> p.token, token_expiry |-> p.token_expiry,
             raised |-> p.token = NoToken, backend |-> TRUE,
             ret |-> p.token]
  ELSE [token |-> p.token, token_expiry |-> p.token_expiry,
        raised |-> FALSE, backend |-> FALSE, ret |-> p.token]

\* p: the provider's fields; e: the environment of the call.
get_credentials(p, e) ==
  IF p.token = NoToken \/ e.now >= p.token_expiry - RefreshBuffer
  THEN IF e.idpOk
       THEN [token |-> e.fresh, token_expiry |-> e.now + e.life,
             raised |-> FALSE, backend |-> TRUE, ret |-> e.fresh]
       ELSE [token |-> p.token, token_expiry |-> p.token_expiry,
             raised |-> TRUE, backend |-> TRUE, ret |-> NoToken]
  ELSE [token |-> p.token, token_expiry |-> p.token_expiry,
        raised |-> FALSE, backend |-> FALSE, ret |-> p.token]

\* ------------------------------------------------- the handle (redis.Redis)
\* An exception as its raiser made it: the exceptions of redis-py, of the
\* identity library and of the constructors know neither the key nor the
\* facade operation.
Exc(kind) == [kind |-> kind, key |-> NoKey, op |-> "none"]
NoExc == Exc("none")

\* s: the client-side state; e: the environment of the call.
\* A command on the handle: a handle without a connection connects first
\* (socket, then authentication with the provider's credentials under
\* Entra ID); a command on a connection to an unreachable store fails and
\* drops the connection.
execute_command(s, e) ==
  IF s.connected
  THEN [s |-> [s EXCEPT !.connected = e.up], ok |-> e.up,
        exc |-> IF e.up THEN NoExc ELSE Exc("ConnectionError"),
        cred |-> NoCred]
  ELSE IF ~e.up
  THEN [s |-> s, ok |-> FALSE, exc |-> Exc("ConnectionError"),
        cred |-> NoCred]
  ELSE IF ~e.entra
  THEN [s |-> [s EXCEPT !.connected = TRUE], ok |-> TRUE, exc |-> NoExc,
        cred |-> NoCred]
  ELSE LET cr == get_credentials([token |-> s.token,
                                  token_expiry |-> s.token_expiry], e)
       IN [s |-> [s EXCEPT !.connected = ~cr.raised,
                           !.token = cr.token,
                           !.token_expiry = cr.token_expiry],
           ok |-> ~cr.raised,
           exc |-> IF cr.raised THEN Exc("IdentityError") ELSE NoExc,
           cred |-> [called |-> TRUE, backend |-> cr.backend,
                     failed |-> cr.backend /\ ~e.idpOk,
                     raised |-> cr.raised, ret |-> cr.ret,
                     exp |-> IF cr.raised THEN 0 ELSE cr.token_expiry]]

\* --------------------------------------------------------------- RedisClient
\* Variant of GetClient without the test for a cached handle.
GetClient_AlwaysBuild(s, e) ==
  IF ~e.buildOk
  THEN [s |-> s, raised |-> TRUE, exc |-> Exc("BuildError"),
        handle |-> NoHandle,
        attempted |-> TRUE, built |-> FALSE, cred |-> NoCred]
  ELSE LET h == s.nextHandle + 1
           fresh == [s EXCEPT !.client = h,
                              !.live = s.live \cup {h},
                              !.nextHandle = h,
                              !.connected = FALSE,
                              !.token = NoToken,
                              !.token_expiry = 0]
           ping == execute_command(fresh, e)
       IN [s |-> ping.s, raised |-> ~ping.ok, exc |-> ping.exc,
           handle |-> IF ping.ok THEN h ELSE NoHandle,
           attempted |-> TRUE, built |-> TRUE, cred |-> ping.cred]

GetClient(s, e) ==
  IF s.client = NoHandle
  THEN IF ~e.buildOk
       THEN [s |-> s, raised |-> TRUE, exc |-> Exc("BuildError"),
             handle |-> NoHandle,
             attempted |-> TRUE, built |-> FALSE, cred |-> NoCred]
       ELSE LET h == s.nextHandle + 1
                fresh == [s EXCEPT !.client = h,
                                   !.live = s.live \cup {h},
                                   !.nextHandle = h,
                                   !.connected = FALSE,
                                   !.token = NoToken,
                                   !.token_expiry = 0]
                ping == execute_command(fresh, e)
            IN [s |-> ping.s, raised |-> ~ping.ok, exc |-> ping.exc,
                handle |-> IF ping.ok THEN h ELSE NoHandle,
                attempted |-> TRUE, built |-> TRUE, cred |-> ping.cred]
  ELSE [s |-> s, raised |-> FALSE, exc |-> NoExc, handle |-> s.client,
        attempted |-> FALSE, built |-> FALSE, cred |-> NoCred]

\* The command a facade operation issues on the handle GetClient returned;
\* the store can reject the command itself.
Issue(a, e) ==
  LET x == execute_command(a.s, e)
  IN [s |-> x.s, ok |-> x.ok /\ e.cmdOk,
      exc |-> IF ~x.ok THEN x.exc
              ELSE IF ~e.cmdOk THEN Exc("ResponseError") ELSE NoExc,
      cred |-> IF a.cred.called THEN a.cred ELSE x.cred]

Missing == [val |-> NoValue, exp |-> NoTTL]

\* The store holds an entry per key it was asked to keep; a key it has no
\* entry for is a missing key, whatever string it is.
Entry(st, key) == IF key \in DOMAIN st THEN st[key] ELSE Missing
Put(st, key, entry) ==
  IF key \in DOMAIN st THEN [st EXCEPT ![key] = entry]
  ELSE [k \in DOMAIN st \cup {key} |-> IF k = key THEN entry ELSE st[k]]

\* Variant of get_value that drops the cached handle when the command
\* fails.
get_value_ResetsOnFailure(s, e, st, key) ==
  LET a == GetClient(s, e)
  IN IF a.raised
     THEN [s |-> a.s, st |-> st, raised |-> TRUE, exc |-> a.exc,
           value |-> NoValue, acq |-> a, cred |-> a.cred]
     ELSE LET x == Issue(a, e)
          IN [s |-> IF x.ok THEN x.s
                    ELSE [x.s EXCEPT !.client = NoHandle, !.live = {},
                                     !.token = NoToken,
                                     !.token_expiry = 0],
              st |-> st, raised |-> ~x.ok, exc |-> x.exc,
              value |-> IF x.ok THEN Entry(st, key).val ELSE NoValue,
              acq |-> a, cred |-> x.cred]

\* The except branch logs the key and re-raises with a bare `raise`: the
\* exception that leaves is the one that arrived.
get_value(s, e, st, key) ==
  LET a == GetClient(s, e)
  IN IF a.raised
     THEN [s |-> a.s, st |-> st, raised |-> TRUE, exc |-> a.exc,
           value |-> NoValue, acq |-> a, cred |-> a.cred]
     ELSE LET x == Issue(a, e)
          IN [s |-> x.s, st |-> st, raised |-> ~x.ok, exc |-> x.exc,
              value |-> IF x.ok THEN Entry(st, key).val ELSE NoValue,
              acq |-> a, cred |-> x.cred]

\* Variant of set_value that gives an entry without TTL an expiry.
set_value_DefaultTTL(s, e, st, key, value, ttl) ==
  LET a == GetClient(s, e)
  IN IF a.raised
     THEN [s |-> a.s, st |-> st, raised |-> TRUE, exc |-> a.exc,
           result |-> FALSE, acq |-> a, cred |-> a.cred]
     ELSE LET x == Issue(a, e)
          IN [s |-> x.s,
              st |-> IF x.ok /\ e.setOk
                     THEN Put(st, key,
                              [val |-> value,
                               exp |-> IF ttl = NoTTL THEN e.now + 100
                                       ELSE e.now + ttl])
                     ELSE st,
              raised |-> ~x.ok, exc |-> x.exc,
              result |-> x.ok /\ e.setOk,
              acq |-> a, cred |-> x.cred]

\* The facade returns what set(key, value, ex=ttl) returns: a reply other
\* than OK comes back as a falsy result, not as an exception, and the entry
\* is then not written.
set_value(s, e, st, key, value, ttl) ==
  LET a == GetClient(s, e)
  IN IF a.raised
     THEN [s |-> a.s, st |-> st, raised |-> TRUE, exc |-> a.exc,
           result |-> FALSE, acq |-> a, cred |-> a.cred]
     ELSE LET x == Issue(a, e)
          IN [s |-> x.s,
              st |-> IF x.ok /\ e.setOk
                     THEN Put(st, key,
                              [val |-> value,
                               exp |-> IF ttl = NoTTL THEN NoTTL
                                       ELSE e.now + ttl])
                     ELSE st,
              raised |-> ~x.ok, exc |-> x.exc,
              result |-> x.ok /\ e.setOk,
              acq |-> a, cred |-> x.cred]

\* Variant of delete_value that tests the reply with >= 0.
delete_value_AlwaysTrue(s, e, st, key) ==
  LET a == GetClient(s, e)
  IN IF a.raised
     THEN [s |-> a.s, st |-> st, raised |-> TRUE, exc |-> a.exc,
           result |-> FALSE, acq |-> a, cred |-> a.cred]
     ELSE LET x == Issue(a, e)
          IN [s |-> x.s,
              st |-> IF x.ok /\ key \in DOMAIN st
                     THEN [st EXCEPT ![key] = Missing] ELSE st,
              raised |-> ~x.ok, exc |-> x.exc,
              result |-> x.ok,
              acq |-> a, cred |-> x.cred]

\* delete(key) replies with the number of keys removed.
delete_value(s, e, st, key) ==
  LET a == GetClient(s, e)
  IN IF a.raised
     THEN [s |-> a.s, st |-> st, raised |-> TRUE, exc |-> a.exc,
           result |-> FALSE, acq |-> a, cred |-> a.cred]
     ELSE LET x == Issue(a, e)
          IN [s |-> x.s,
              st |-> IF x.ok /\ key \in DOMAIN st
                     THEN [st EXCEPT ![key] = Missing] ELSE st,
              raised |-> ~x.ok, exc |-> x.exc,
              result |-> x.ok /\ Entry(st, key).val # NoValue,
              acq |-> a, cred |-> x.cred]

\* Variant of health_check whose except branch re-raises.
health_check_Reraises(s, e) ==
  LET a == GetClient(s, e)
  IN IF a.raised
     THEN [s |-> a.s, raised |-> TRUE, exc |-> a.exc, status |-> "",
           error |-> FALSE, ping |-> FALSE, info |-> FALSE,
           acq |-> a, cred |-> a.cred]
     ELSE LET p == execute_command(a.s, e)
              c == IF a.cred.called THEN a.cred ELSE p.cred
          IN IF p.ok /\ e.infoOk
             THEN [s |-> p.s, raised |-> FALSE, exc |-> NoExc,
                   status |-> IF e.pingOk THEN "healthy" ELSE "unhealthy",
                   error |-> FALSE, ping |-> e.pingOk, info |-> TRUE,
                   acq |-> a, cred |-> c]
             ELSE [s |-> p.s, raised |-> TRUE,
                   exc |-> IF p.ok THEN Exc("ResponseError") ELSE p.exc,
                   status |-> "",
                   error |-> FALSE, ping |-> FALSE, info |-> FALSE,
                   acq |-> a, cred |-> c]

\* Variant of health_check that answers from the state of the cached
\* connection instead of pinging it.
health_check_Cached(s, e) ==
  LET a == GetClient(s, e)
  IN IF a.raised
     THEN [s |-> a.s, raised |-> FALSE, exc |-> NoExc,
           status |-> "unhealthy",
           error |-> TRUE, ping |-> FALSE, info |-> FALSE,
           acq |-> a, cred |-> a.cred]
     ELSE IF a.s.connected
     THEN [s |-> a.s, raised |-> FALSE, exc |-> NoExc,
           status |-> "healthy",
           error |-> FALSE, ping |-> TRUE, info |-> TRUE,
           acq |-> a, cred |-> a.cred]
     ELSE LET p == execute_command(a.s, e)
              c == IF a.cred.called THEN a.cred ELSE p.cred
          IN IF p.ok /\ e.infoOk
             THEN [s |-> p.s, raised |-> FALSE, exc |-> NoExc,
                   status |-> IF e.pingOk THEN "healthy" ELSE "unhealthy",
                   error |-> FALSE, ping |-> e.pingOk, info |-> TRUE,
                   acq |-> a, cred |-> c]
             ELSE [s |-> p.s, raised |-> FALSE, exc |-> NoExc,
                   status |-> "unhealthy",
                   error |-> TRUE, ping |-> FALSE, info |-> FALSE,
                   acq |-> a, cred |-> c]

\* The report of the try path is healthy when ping() returned a truthy
\* reply and unhealthy, without an error, when it returned a falsy one;
\* every exception takes the except path.  The ping of _get_client is not
\* looked at: only an exception makes the establishment fail.
health_check(s, e) ==
  LET a == GetClient(s, e)
  IN IF a.raised
     THEN [s |-> a.s, raised |-> FALSE, exc |-> NoExc,
           status |-> "unhealthy",
           error |-> TRUE, ping |-> FALSE, info |-> FALSE,
           acq |-> a, cred |-> a.cred]
     ELSE LET p == execute_command(a.s, e)
              c == IF a.cred.called THEN a.cred ELSE p.cred
          IN IF p.ok /\ e.infoOk
             THEN [s |-> p.s, raised |-> FALSE, exc |-> NoExc,
                   status |-> IF e.pingOk THEN "healthy" ELSE "unhealthy",
                   error |-> FALSE, ping |-> e.pingOk, info |-> TRUE,
                   acq |-> a, cred |-> c]
             ELSE [s |-> p.s, raised |-> FALSE, exc |-> NoExc,
                   status |-> "unhealthy",
                   error |-> TRUE, ping |-> FALSE, info |-> FALSE,
                   acq |-> a, cred |-> c]

\* Variant of close that closes the handle and keeps it cached.
close_KeepsClient(s) ==
  IF s.client # NoHandle
  THEN [s EXCEPT !.live = s.live \ {s.client}, !.connected = FALSE]
  ELSE s

\* Variant of close that forgets the handle without closing it.
close_LeavesOpen(s) ==
  IF s.client # NoHandle
  THEN [s EXCEPT !.client = NoHandle, !.token = NoToken,
                 !.token_expiry = 0]
  ELSE s

\* Variant of close under which the provider of the closed handle stays in
\* use.
close_KeepsProvider(s) ==
  IF s.client # NoHandle
  THEN [s EXCEPT !.client = NoHandle, !.live = s.live \ {s.client},
                 !.connected = FALSE]
  ELSE s

\* The provider is reachable through the handle only: with the handle its
\* credential is gone.
close(s) ==
  IF s.client # NoHandle
  THEN [s EXCEPT !.client = NoHandle, !.live = s.live \ {s.client},
                 !.connected = FALSE, !.token = NoToken,
                 !.token_expiry = 0]
  ELSE s

\* ------------------------------------------------------------ HTTP handlers
\* The response of a handler and, next to it, what the step did: whether a
\* facade operation was called (facade), what it returned (result, and
\* ping for the reply to the ping of health_check), the
\* exception that left it (exc), and whether a collaborator failed (fault).
NoLast == [op |-> "none", key |-> NoKey, arg |-> NoValue,
           ttl |-> NoTTL, raised |-> FALSE, found |-> FALSE,
           value |-> NoValue, status |-> 0, body |-> "",
           report |-> "", error |-> FALSE, fault |-> FALSE,
           facade |-> FALSE, result |-> FALSE, ping |-> FALSE,
           exc |-> NoExc]

\* The request body of POST /cache is parsed into a CacheItem before the
\* handler runs; a body that does not validate is answered with 422.
CacheItem(key, value, ttl) ==
  /\ Len(key) >= MinKeyLen
  /\ Len(key) <= MaxKeyLen
  /\ Len(value) <= MaxValueLen
  /\ ttl = NoTTL \/ ttl >= MinTTL

RequestValidationError(key, value, ttl) ==
  [NoLast EXCEPT !.op = "set", !.key = key, !.arg = value, !.ttl = ttl,
                 !.status = ValidationStatus,
                 !.body = "Unprocessable Entity"]

\* Variant of get_cache_value that treats a missing key as a failure.
get_cache_value_MissingIsError(key, r) ==
  IF r.raised \/ r.value = NoValue
  THEN [NoLast EXCEPT !.op = "get", !.key = key,
                      !.raised = TRUE, !.status = 500,
                      !.body = "Failed to get cache value"]
  ELSE [NoLast EXCEPT !.op = "get", !.key = key,
                      !.found = TRUE, !.value = r.value, !.status = 200,
                      !.body = "Value retrieved successfully"]

\* r: what the facade call did (its return value, or that it raised).
get_cache_value(key, r) ==
  IF r.raised
  THEN [NoLast EXCEPT !.op = "get", !.key = key,
                      !.raised = TRUE, !.status = 500,
                      !.body = "Failed to get cache value"]
  ELSE IF r.value # NoValue
  THEN [NoLast EXCEPT !.op = "get", !.key = key,
                      !.found = TRUE, !.value = r.value, !.status = 200,
                      !.body = "Value retrieved successfully"]
  ELSE [NoLast EXCEPT !.op = "get", !.key = key,
                      !.status = 200, !.body = "Key not found in cache"]

\* Variant of set_cache_value that does not look at what set_value
\* returned.
set_cache_value_IgnoresResult(key, value, ttl, r) ==
  IF r.raised
  THEN [NoLast EXCEPT !.op = "set", !.key = key,
                      !.arg = value, !.ttl = ttl,
                      !.raised = TRUE, !.status = 500,
                      !.body = "Failed to set cache value"]
  ELSE [NoLast EXCEPT !.op = "set", !.key = key,
                      !.arg = value, !.ttl = ttl,
                      !.found = TRUE, !.value = value, !.status = 200,
                      !.body = "Value stored successfully"]

\* The HTTPException(500, "Failed to store value in cache") of the else
\* branch is raised inside the try and caught by its `except Exception`,
\* which answers 500 with str() of that exception, "500: " and the text,
\* inside its own detail.
set_cache_value(key, value, ttl, r) ==
  IF r.raised
  THEN [NoLast EXCEPT !.op = "set", !.key = key,
                      !.arg = value, !.ttl = ttl,
                      !.raised = TRUE, !.status = 500,
                      !.body = "Failed to set cache value"]
  ELSE IF r.result
  THEN [NoLast EXCEPT !.op = "set", !.key = key,
                      !.arg = value, !.ttl = ttl,
                      !.found = TRUE, !.value = value, !.status = 200,
                      !.body = "Value stored successfully"]
  ELSE [NoLast EXCEPT
          !.op = "set", !.key = key,
          !.arg = value, !.ttl = ttl, !.status = 500,
          !.body =
            "Failed to set cache value: 500: Failed to store value in cache"]

delete_cache_value(key, r) ==
  IF r.raised
  THEN [NoLast EXCEPT !.op = "delete", !.key = key,
                      !.raised = TRUE, !.status = 500,
                      !.body = "Failed to delete cache value"]
  ELSE IF r.result
  THEN [NoLast EXCEPT !.op = "delete", !.key = key,
                      !.found = TRUE, !.status = 200,
                      !.body = "Value deleted successfully"]
  ELSE [NoLast EXCEPT !.op = "delete", !.key = key,
                      !.status = 200, !.body = "Key not found in cache"]

\* GET /health: r is what redis_client.health_check() did.
health_endpoint(r) ==
  IF r.raised
  THEN [NoLast EXCEPT !.op = "health", !.raised = TRUE,
                      !.status = 200, !.body = "unhealthy", !.error = TRUE]
  ELSE [NoLast EXCEPT !.op = "health", !.status = 200,
                      !.body = IF r.status = "healthy" THEN "healthy"
                               ELSE "unhealthy",
                      !.report = r.status, !.error = r.error]

\* Variant of readiness_check that answers ready whenever health_check
\* returned a report.
readiness_check_AnyReport(r) ==
  IF r.raised
  THEN [NoLast EXCEPT !.op = "ready", !.raised = TRUE,
                      !.status = 503, !.body = "not_ready", !.error = TRUE]
  ELSE [NoLast EXCEPT !.op = "ready", !.status = 200, !.body = "ready",
                      !.report = r.status, !.error = r.error]

\* GET /health/ready
readiness_check(r) ==
  IF r.raised
  THEN [NoLast EXCEPT !.op = "ready", !.raised = TRUE,
                      !.status = 503, !.body = "not_ready", !.error = TRUE]
  ELSE IF r.status = "healthy"
  THEN [NoLast EXCEPT !.op = "ready", !.status = 200,
                      !.body = "ready",
                      !.report = r.status, !.error = r.error]
  ELSE [NoLast EXCEPT !.op = "ready", !.status = 503,
                      !.body = "not_ready",
                      !.report = r.status, !.error = r.error]

\* ------------------------------------------------------------- state machine
Self == [client |-> client, live |-> live, nextHandle |-> nextHandle,
         connected |-> connected, token |-> token,
         token_expiry |-> token_expiry]

\* What the collaborators do during one handler: whether constructing the
\* handle raises, whether the identity backend answers and with which
\* lifetime, whether the store rejects the command, whether INFO fails,
\* whether SET is answered with something other than OK and the ping of
\* health_check with something other than PONG.
\* An input that no call of the handler reads is given one value only:
\* the handle is constructed only when none is cached, the identity backend
\* is asked only under Entra ID with the store reachable, a cache operation
\* issues no INFO and health_check issues no cache command.
AnyLife == CHOOSE l \in TokenLifetimes : TRUE
Envs(cmd, info, setok, pingok) ==
  [up : {storeUp}, entra : {use_entraid}, now : {now}, fresh : {issued + 1},
   buildOk : IF client = NoHandle THEN BOOLEAN ELSE {TRUE},
   idpOk : IF use_entraid /\ storeUp THEN BOOLEAN ELSE {TRUE},
   life : IF use_entraid /\ storeUp THEN TokenLifetimes ELSE {AnyLife},
   cmdOk : cmd, infoOk : info, setOk : setok, pingOk : pingok]
CacheEnvs == Envs(BOOLEAN, {TRUE}, {TRUE}, {TRUE})
SetEnvs ==
  {e \in Envs(BOOLEAN, {TRUE}, BOOLEAN, {TRUE}) : e.cmdOk \/ e.setOk}
HealthEnvs ==
  {e \in Envs({TRUE}, BOOLEAN, {TRUE}, BOOLEAN) : e.infoOk \/ e.pingOk}

\* Some call the handler made has failed in a collaborator.
Fault(e, r) ==
  \/ ~e.up
  \/ r.acq.attempted /\ ~r.acq.built
  \/ r.cred.failed
  \/ ~e.cmdOk
  \/ ~e.infoOk

NoAcq == [called |-> FALSE, attempted |-> FALSE, built |-> FALSE,
          raised |-> FALSE, handle |-> NoHandle]

NoCo == [ran |-> 0, noHandle |-> TRUE, stale |-> TRUE,
         att |-> 0, fails |-> 0, got |-> {},
         creq |-> 0, cback |-> 0, cbad |-> 0, toks |-> {}]

\* The held credential is absent or inside the refresh window.
Stale == use_entraid /\ (token = NoToken \/ now >= token_expiry - RefreshBuffer)

InitWith(entra) ==
  /\ use_entraid \in entra
  /\ client = NoHandle
  /\ live = {}
  /\ nextHandle = 0
  /\ connected = FALSE
  /\ token = NoToken
  /\ token_expiry = 0
  /\ issued = 0
  /\ now = 0
  /\ storeUp \in BOOLEAN
  /\ store = [k \in Keys |-> Missing]
  /\ pc = [c \in Callers |-> "idle"]
  /\ cohort = {}
  /\ co = NoCo
  /\ last = NoLast
  /\ acq = NoAcq
  /\ cred = NoCred

\* A request reaches the server and waits for the event loop.  It joins the
\* requests that are all still waiting, or starts a new cohort.  A cohort
\* lasts while only its members are served: any other request that is
\* answered dissolves it, and a request that was alone when it was served
\* leaves no cohort.
Arrive(c) ==
  /\ pc[c] = "idle"
  /\ pc' = [pc EXCEPT ![c] = "pending"]
  /\ IF cohort # {} /\ co.ran = 0
     THEN /\ cohort' = cohort \cup {c}
          /\ co' = [co EXCEPT !.noHandle = co.noHandle /\ client = NoHandle,
                              !.stale = co.stale /\ Stale]
     ELSE /\ cohort' = {c}
          /\ co' = [NoCo EXCEPT !.noHandle = (client = NoHandle),
                                !.stale = Stale]
  /\ last' = NoLast
  /\ acq' = NoAcq
  /\ cred' = NoCred
  /\ UNCHANGED <<use_entraid, client, live, nextHandle, connected, token,
                 token_expiry, issued, now, storeUp, store>>

\* The effect of one handler on the process: r is the facade's result.
Commit(c, e, r, resp) ==
  /\ r.s.nextHandle <= MaxHandles
  /\ issued' = IF r.cred.backend /\ ~r.cred.raised THEN issued + 1 ELSE issued
  /\ issued' <= MaxTokens
  /\ client' = r.s.client
  /\ live' = r.s.live
  /\ nextHandle' = r.s.nextHandle
  /\ connected' = r.s.connected
  /\ token' = r.s.token
  /\ token_expiry' = r.s.token_expiry
  /\ pc' = [pc EXCEPT ![c] = "idle"]
  /\ cohort' = IF c \in cohort /\ Cardinality(cohort) >= 2
               THEN cohort ELSE {}
  /\ co' = IF c \notin cohort \/ Cardinality(cohort) < 2 THEN NoCo
           ELSE [co EXCEPT
                   !.ran = @ + 1,
                   !.att = @ + (IF r.acq.attempted THEN 1 ELSE 0),
                   !.fails = @ + (IF r.acq.attempted /\ ~r.acq.built
                                  THEN 1 ELSE 0),
                   !.got = @ \cup (IF r.acq.handle # NoHandle
                                   THEN {r.acq.handle} ELSE {}),
                   !.creq = @ + (IF r.cred.called THEN 1 ELSE 0),
                   !.cback = @ + (IF r.cred.backend THEN 1 ELSE 0),
                   !.cbad = @ + (IF r.cred.called
                                    /\ (r.cred.raised
                                        \/ r.cred.exp <= now + RefreshBuffer)
                                 THEN 1 ELSE 0),
                   !.toks = @ \cup (IF r.cred.ret # NoToken
                                    THEN {r.cred.ret} ELSE {})]
  /\ last' = [resp EXCEPT !.fault = Fault(e, r), !.facade = TRUE,
                          !.exc = r.exc]
  /\ acq' = [called |-> TRUE, attempted |-> r.acq.attempted,
             built |-> r.acq.built, raised |-> r.acq.raised,
             handle |-> r.acq.handle]
  /\ cred' = r.cred
  /\ UNCHANGED <<use_entraid, now, storeUp>>

\* A request answered before its handler runs.
Reject(c, resp) ==
  /\ pc' = [pc EXCEPT ![c] = "idle"]
  /\ cohort' = {}
  /\ co' = NoCo
  /\ last' = resp
  /\ acq' = NoAcq
  /\ cred' = NoCred
  /\ UNCHANGED <<use_entraid, client, live, nextHandle, connected, token,
                 token_expiry, issued, now, storeUp, store>>

\* GET /cache/{key}
GetCache(c, key) ==
  /\ pc[c] = "pending"
  /\ \E e \in CacheEnvs : \E r \in {get_value(Self, e, store, key)} :
       /\ Commit(c, e, r, get_cache_value(key, r))
       /\ store' = r.st

\* GET /cache?key=: q is the query parameter, NoKey when it is omitted.
GetDefaultCache(c, q) ==
  /\ pc[c] = "pending"
  /\ \E cache_key \in {IF q # NoKey THEN q ELSE default_key} :
     \E e \in CacheEnvs : \E r \in {get_value(Self, e, store, cache_key)} :
       /\ Commit(c, e, r, get_cache_value(cache_key, r))
       /\ store' = r.st

\* POST /cache
PostCache(c, key, value, ttl) ==
  /\ pc[c] = "pending"
  /\ IF CacheItem(key, value, ttl)
     THEN \E e \in SetEnvs :
          \E r \in {set_value(Self, e, store, key, value, ttl)} :
            /\ Commit(c, e, r, [set_cache_value(key, value, ttl, r)
                                  EXCEPT !.result = r.result])
            /\ store' = r.st
     ELSE Reject(c, RequestValidationError(key, value, ttl))

\* DELETE /cache/{key}
DeleteCache(c, key) ==
  /\ pc[c] = "pending"
  /\ \E e \in CacheEnvs : \E r \in {delete_value(Self, e, store, key)} :
       /\ Commit(c, e, r, [delete_cache_value(key, r)
                             EXCEPT !.result = r.result])
       /\ store' = r.st

Health(c) ==
  /\ pc[c] = "pending"
  /\ \E e \in HealthEnvs : \E r \in {health_check(Self, e)} :
       /\ Commit(c, e, r, [health_endpoint(r) EXCEPT !.ping = r.ping])
       /\ store' = store

Ready(c) ==
  /\ pc[c] = "pending"
  /\ \E e \in HealthEnvs : \E r \in {health_check(Self, e)} :
       /\ Commit(c, e, r, [readiness_check(r) EXCEPT !.ping = r.ping])
       /\ store' = store

\* lifespan shutdown: redis_client.close()
Close ==
  \E s \in {close(Self)} :
     /\ client' = s.client
     /\ live' = s.live
     /\ nextHandle' = s.nextHandle
     /\ connected' = s.connected
     /\ token' = s.token
     /\ token_expiry' = s.token_expiry
     /\ cohort' = IF s # Self THEN {} ELSE cohort
     /\ co' = IF s # Self THEN NoCo ELSE co
     /\ last' = [NoLast EXCEPT !.op = "close"]
     /\ acq' = NoAcq
     /\ cred' = NoCred
     /\ UNCHANGED <<use_entraid, issued, now, storeUp, store, pc>>

\* Time passes; the store drops the entries whose TTL has run out.
Tick(d) ==
  /\ now + d <= MaxTicks * d
  /\ now' = now + d
  /\ store' = [k \in DOMAIN store |->
                 IF store[k].exp # NoTTL /\ store[k].exp <= now + d
                 THEN Missing ELSE store[k]]
  /\ cohort' = {}
  /\ co' = NoCo
  /\ last' = NoLast
  /\ acq' = NoAcq
  /\ cred' = NoCred
  /\ UNCHANGED <<use_entraid, client, live, nextHandle, connected, token,
                 token_expiry, issued, storeUp, pc>>

\* The store becomes unreachable, or reachable again.
StoreToggle ==
  /\ storeUp' = ~storeUp
  /\ last' = NoLast
  /\ acq' = NoAcq
  /\ cred' = NoCred
  /\ UNCHANGED <<use_entraid, client, live, nextHandle, connected, token,
                 token_expiry, issued, now, store, pc, cohort, co>>

\* The handle's connection is closed from the other side; the next command
\* reconnects.
ConnectionLost ==
  /\ connected
  /\ connected' = FALSE
  /\ last' = NoLast
  /\ acq' = NoAcq
  /\ cred' = NoCred
  /\ UNCHANGED <<use_entraid, client, live, nextHandle, token, token_expiry,
                 issued, now, storeUp, store, pc, cohort, co>>

\* K, V, T: the keys, values and TTLs the requests carry; Q: the keys the
\* query parameter of GET /cache carries, NoKey for a request without it.
\* The routes /cache/{key} match no empty key.
NextWith(K, V, T, Q) ==
  \/ \E c \in Callers : Arrive(c)
  \/ \E c \in Callers, k \in K \ {EmptyKey} : GetCache(c, k)
  \/ \E c \in Callers, q \in Q : GetDefaultCache(c, q)
  \/ \E c \in Callers, k \in K, v \in V, t \in T : PostCache(c, k, v, t)
  \/ \E c \in Callers, k \in K \ {EmptyKey} : DeleteCache(c, k)
  \/ \E c \in Callers : Health(c)
  \/ \E c \in Callers : Ready(c)
  \/ Close
  \/ \E d \in TickSizes : Tick(d)
  \/ StoreToggle
  \/ ConnectionLost

\* The connection manager and the token provider under both ways of
\* authenticating; the requests carry one key and one value.
Init == InitWith(BOOLEAN)
Next == NextWith({"k1"}, {"v1"}, {NoTTL}, {NoKey})
Spec == Init /\ [][Next]_vars

\* The cache operations under password authentication; the requests carry
\* every key, value and TTL.
InitCache == InitWith({FALSE})
NextCache == NextWith(Keys, Values, TTLs \cup {NoTTL}, {NoKey})
SpecCache == InitCache /\ [][NextCache]_vars

\* The request boundary under password authentication: the requests carry
\* keys, values and TTLs inside and outside the bounds of CacheItem.
BoundaryKeys == {default_key, EmptyKey, LongKey}
BoundaryValues == {"v1", LongValue}
BoundaryTTLs == {NoTTL, BadTTL, 100}
NextBoundary ==
  NextWith(BoundaryKeys, BoundaryValues, BoundaryTTLs,
           BoundaryKeys \cup {NoKey})
SpecBoundary == InitCache /\ [][NextBoundary]_vars

TypeOK ==
  /\ client \in 0..MaxHandles
  /\ now >= 0
  /\ issued \in 0..MaxTokens

\* ===================================================================== claims

\* The requests of a cohort of at least two callers all arrived while no
\* handle existed, all have been served, and nothing else ran in between.
C1_Cohort ==
  /\ Cardinality(cohort) >= 2
  /\ co.ran = Cardinality(cohort)
  /\ co.noHandle

\* C1 as stated: concurrent first calls of N >= 2 callers, made while no
\* handle exists, result in exactly one connection attempt in total.
C1_ExactlyOneAttempt == C1_Cohort => co.att = 1

\* C1 as amended: the callers make one attempt, plus one for every attempt
\* in which constructing the handle raised; once a handle is constructed no
\* further attempt is made, so at most one attempt constructs a handle.
C1_OneAttemptPerConstruction ==
  C1_Cohort => co.att = co.fails + (IF client # NoHandle THEN 1 ELSE 0)

C1_Witness ==
  C1_Cohort /\ co.att = 1 /\ co.fails = 0 /\ co.got = {client}

\* C2 as stated: when connection establishment fails (construction raises
\* or the validating ping fails), get_connection raises and no handle is
\* left cached, so that the next call establishes from scratch.
C2_NoHandleCachedAfterFailure ==
  (acq.called /\ acq.raised) => (client = NoHandle /\ live = {})

\* C3: at most one live handle exists in every reachable state, it is the
\* cached one, and every caller that obtains a handle obtains the cached one.
C3_SingleHandle ==
  /\ Cardinality(live) <= 1
  /\ live = (IF client = NoHandle THEN {} ELSE {client})
  /\ co.got \subseteq live
  /\ (acq.called /\ acq.handle # NoHandle) => acq.handle = client

C3_Witness ==
  /\ Cardinality(cohort) >= 2
  /\ co.ran = Cardinality(cohort)
  /\ co.got = {client}
  /\ nextHandle = 2

\* C4 as stated: every credential get_credentials returns at time t has an
\* expiry greater than t + 300.
C4_NeverWithinBuffer ==
  (cred.called /\ ~cred.raised) => cred.exp > now + RefreshBuffer

\* C4 as amended: a credential get_credentials returns at time t was either
\* obtained from the identity backend during that call or has an expiry
\* greater than t + 300: a held credential inside the window is never
\* returned without a refresh.
C4_RefreshedOrOutsideBuffer ==
  (cred.called /\ ~cred.raised) =>
     /\ cred.ret # NoToken
     /\ cred.backend \/ cred.exp > now + RefreshBuffer

\* A second token was issued to the same provider: the held one had entered
\* the window and was refreshed before being returned.
C4_Witness ==
  /\ cred.called /\ cred.backend /\ ~cred.raised
  /\ issued = 2 /\ nextHandle = 1
  /\ cred.exp > now + RefreshBuffer

\* C5: with a credential held and the current time before its expiry minus
\* 300 s, get_credentials returns the held token, makes no call to the
\* identity backend and leaves the held credential as it is.
C5_NoRedundantRefresh ==
  [][(cred'.called /\ token # NoToken /\ now < token_expiry - RefreshBuffer)
       => /\ ~cred'.backend
          /\ ~cred'.raised
          /\ cred'.ret = token
          /\ token' = token
          /\ token_expiry' = token_expiry
          /\ issued' = issued]_vars

C5_Witness ==
  /\ cred.called /\ ~cred.backend
  /\ token # NoToken /\ cred.ret = token
  /\ now < token_expiry - RefreshBuffer

\* The requests of a cohort of at least two callers all arrived while the
\* credential was absent or inside the window, all have been served and
\* each has asked for a credential.
C6_Cohort ==
  /\ Cardinality(cohort) >= 2
  /\ co.ran = Cardinality(cohort)
  /\ co.stale
  /\ co.creq = co.ran

C7_FailedRefreshPropagates ==
  [][/\ (cred'.called /\ cred'.failed)
          => /\ cred'.raised
             /\ cred'.ret = NoToken
             /\ token' = token
             /\ token_expiry' = token_expiry
     /\ (cred.called /\ cred.failed /\ cred'.called) => cred'.backend]_vars

C7_Witness ==
  cred.called /\ cred.failed /\ cred.raised /\ token # NoToken

\* C8: health_check never raises; it returns a report, and when a call it
\* made has failed the report is unhealthy and carries an error.
C8_HealthCheckNeverRaises ==
  last.op \in {"health", "ready"} =>
     /\ ~last.raised
     /\ last.report \in {"healthy", "unhealthy"}
     /\ last.fault => (last.report = "unhealthy" /\ last.error)

C8_Witness ==
  /\ last.op = "health"
  /\ last.fault /\ storeUp
  /\ last.report = "unhealthy" /\ last.error

\* C9: GET /health/ready answers 200 ready exactly when the health report
\* of the request is healthy and 503 not_ready otherwise, in particular
\* when the store is unreachable.
C9_ReadyIffHealthy ==
  last.op = "ready" =>
     /\ \/ last.report = "healthy" /\ last.status = 200 /\ last.body = "ready"
        \/ last.report # "healthy" /\ last.status = 503
           /\ last.body = "not_ready"
     /\ ~storeUp => last.status = 503

C9_Witness ==
  last.op = "ready" /\ ~storeUp /\ last.status = 503 /\ last.body = "not_ready"

\* C10: a successful set(key, value, ttl) followed immediately by a
\* successful get(key) returns value; set without TTL stores the entry
\* without expiry, and such an entry stays as it is, and is what get
\* returns, until a delete or a set of that key.
C10_RoundTrip ==
  [][/\ (/\ last.op = "set" /\ last.status = 200
         /\ last'.op = "get" /\ last'.key = last.key /\ ~last'.raised)
          => (last'.found /\ last'.value = last.arg)
     /\ (last'.op = "set" /\ last'.status = 200 /\ last'.ttl = NoTTL)
          => store'[last'.key] = [val |-> last'.arg, exp |-> NoTTL]
     /\ \A k \in Keys :
          (store[k].val # NoValue /\ store[k].exp = NoTTL) =>
             /\ ~(last'.op \in {"set", "delete"} /\ last'.key = k
                  /\ ~last'.raised)
                  => store'[k] = store[k]
             /\ (last'.op = "get" /\ last'.key = k /\ ~last'.raised)
                  => (last'.found /\ last'.value = store[k].val)]_vars

\* A get that returns a value stored without TTL, after time has passed.
C10_Witness ==
  /\ last.op = "get" /\ last.found
  /\ last.value = store[last.key].val
  /\ store[last.key].exp = NoTTL
  /\ now > 0

\* C11: a delete raises exactly when acquiring the handle or the store
\* command failed, never because the key has no entry.  A delete that
\* completes answers 200; it returns true exactly when
\* the key had an entry, and afterwards the key has none.  A get or a second
\* delete of the same key that follows it returns not-found and false, and
\* a key without an entry gets one only by a set of that key: until then
\* every get of it answers 200 with found=false.
C11_DeleteThenNotFound ==
  [][/\ last'.op = "delete"
          => /\ last'.raised <=> last'.fault
             /\ last'.raised <=> last'.exc # NoExc
             /\ last'.raised => last'.status = 500
     /\ (last'.op = "delete" /\ ~last'.raised)
          => /\ last'.status = 200
             /\ last'.result = (Entry(store, last'.key).val # NoValue)
             /\ last'.found = last'.result
             /\ Entry(store', last'.key) = Missing
     /\ (/\ last.op = "delete" /\ ~last.raised
         /\ last'.op \in {"get", "delete"} /\ last'.key = last.key
         /\ ~last'.raised)
          => /\ last'.status = 200
             /\ ~last'.found
             /\ ~last'.result
             /\ last'.value = NoValue
     /\ \A k \in Keys :
          Entry(store, k) = Missing =>
             /\ Entry(store', k) # Missing
                  => (last'.op = "set" /\ last'.key = k /\ last'.result)
             /\ (last'.op = "get" /\ last'.key = k /\ ~last'.raised)
                  => (last'.status = 200 /\ ~last'.found)]_vars

\* A delete has removed an entry: it answered found=true and the key has no
\* entry any more.
C11_Witness ==
  /\ last.op = "delete" /\ last.status = 200
  /\ last.found /\ last.result
  /\ Entry(store, last.key) = Missing

\* C12: a get of a key that has no entry, as every key never written has
\* none, returns the not-found outcome: whenever the handle is acquired and
\* the store answers, GET answers 200 with found=false and no value.  The
\* missing key is never what makes a get fail: a get answered 500 is one in
\* which acquiring the handle or the store command failed.
C12_MissingKeyIsNotFound ==
  (last.op = "get" /\ Entry(store, last.key) = Missing) =>
     /\ ~last.fault => (/\ ~last.raised
                        /\ last.status = 200
                        /\ ~last.found
                        /\ last.value = NoValue
                        /\ last.body = "Key not found in cache")
     /\ last.raised => (last.fault /\ last.status = 500)
     /\ last.status \in {200, 500}

\* The get that constructed the first handle of the process: no operation
\* has reached the store before it, so its key was never written.
C12_Witness ==
  /\ last.op = "get" /\ last.status = 200 /\ ~last.found
  /\ last.value = NoValue
  /\ acq.built /\ nextHandle = 1
  /\ store = [k \in Keys |-> Missing]

\* C13: a validated POST /cache answers 200 with found=true and the value
\* of the request exactly when set_value returned true; when set_value
\* returned false it answers 500 with the text "Failed to store value in
\* cache", when set_value raised it answers 500; there is no other answer.
C13_PostOutcome ==
  (last.op = "set" /\ last.facade) =>
     /\ last.status = 200 <=> (last.exc = NoExc /\ last.result)
     /\ last.status = 200
          => /\ last.found
             /\ last.value = last.arg
             /\ last.body = "Value stored successfully"
     /\ (last.exc = NoExc /\ ~last.result) =>
          /\ last.status = 500
          /\ last.body =
               "Failed to set cache value: 500: Failed to store value in cache"
     /\ last.exc # NoExc => last.status = 500
     /\ last.status \in {200, 500}
     /\ last.status = 500 => (~last.found /\ last.value = NoValue)

\* set_value has returned false without raising and the answer is the 500
\* of the failed store.
C13_Witness ==
  /\ last.op = "set" /\ last.facade
  /\ last.exc = NoExc /\ ~last.result
  /\ last.status = 500

\* C14 as stated: on every cache endpoint a request whose key is empty or
\* longer than 255 characters, whose value is longer than 10000 characters
\* or whose TTL is present and below 1 is answered with a 4xx status before
\* any facade operation is called.
C14_BoundaryValidation ==
  (/\ last.op \in {"get", "set", "delete"}
   /\ ~CacheItem(last.key, last.arg, last.ttl))
     => (last.status \in 400..499 /\ ~last.facade)

\* C15: close() leaves no handle cached and none open; with no handle
\* cached it changes nothing.  A _get_client call made while none is cached,
\* as after close(), attempts an establishment: the handle it constructs is
\* a new one, never one constructed before, and it is returned only after
\* its ping has succeeded.
C15_CloseResets ==
  [][/\ last'.op = "close"
          => /\ client' = NoHandle
             /\ live' = {}
             /\ ~connected'
             /\ client = NoHandle
                  => UNCHANGED <<client, live, nextHandle, connected, token,
                                 token_expiry, issued, now, storeUp, store,
                                 pc, cohort, co>>
     /\ (client = NoHandle /\ acq'.called)
          => /\ acq'.attempted
             /\ acq'.built
                  => /\ client' = nextHandle + 1
                     /\ nextHandle' = nextHandle + 1
                     /\ live' = {client'}
             /\ acq'.handle # NoHandle
                  => (acq'.built /\ acq'.handle = client' /\ connected'
                      /\ storeUp)
             /\ (acq'.built /\ ~storeUp) => acq'.raised]_vars

\* A second handle has been constructed and validated: the first one was
\* closed, and the call after close() established anew.
C15_Witness ==
  /\ acq.called /\ acq.attempted /\ acq.built
  /\ acq.handle = 2 /\ client = 2 /\ live = {2} /\ connected

\* C16 as stated: every failure of get, set and delete leaves the facade
\* as a StoreOperationError that carries the key and the operation name,
\* and no other kind of error leaves it.
C16_StoreOperationError ==
  (last.op \in {"get", "set", "delete"} /\ last.facade /\ last.exc # NoExc)
     => /\ last.exc.kind = "StoreOperationError"
        /\ last.exc.key = last.key
        /\ last.exc.op = last.op

\* C17: while a handle is cached every get, set, delete and health_check
\* obtains that handle and makes no connection attempt, and leaves it
\* cached whether or not its store command fails; only close() takes the
\* cached handle away.
C17_ReadyReusesHandle ==
  [][/\ (client # NoHandle /\ acq'.called)
          => /\ ~acq'.attempted
             /\ ~acq'.built
             /\ ~acq'.raised
             /\ acq'.handle = client
             /\ client' = client
             /\ live' = live
             /\ nextHandle' = nextHandle
     /\ (client # NoHandle /\ client' # client)
          => (last'.op = "close" /\ client' = NoHandle)]_vars

\* A store operation has failed on the cached handle, and the handle is
\* still the cached one.
C17_Witness ==
  /\ last.op \in {"get", "set", "delete"} /\ last.raised
  /\ acq.called /\ ~acq.attempted
  /\ acq.handle = client /\ client # NoHandle /\ live = {client}

\* C18: the health report is made from the calls of the health check that
\* returns it: it is healthy exactly when the handle was obtained, the ping
\* of this call was answered, and answered with a truthy reply, and the
\* store metadata was read in this call, so a healthy report is given only
\* with the store reachable and the handle connected, and with the store
\* unreachable the report is unhealthy whatever the earlier reports were.
\* The report carries an error exactly when one of the calls raised.
C18_HealthReportIsFresh ==
  last.op \in {"health", "ready"} =>
     /\ last.report = "healthy" <=> (~last.fault /\ last.ping)
     /\ last.report = "unhealthy" <=> (last.fault \/ ~last.ping)
     /\ last.error <=> last.fault
     /\ last.fault => ~last.ping
     /\ last.report = "healthy"
          => (storeUp /\ connected /\ client # NoHandle /\ ~last.error)
     /\ ~storeUp => (last.report = "unhealthy" /\ last.error)

\* The store has become unreachable under a cached handle that still holds
\* its connection, and the health check reports unhealthy.
C18_Witness ==
  /\ last.op = "health" /\ last.report = "unhealthy"
  /\ ~storeUp
  /\ acq.called /\ ~acq.attempted /\ client # NoHandle
  /\ nextHandle = 1 /\ issued = 1

\* C19: the credential is held by the provider of the cached handle and by
\* nothing else.  close() leaves no credential behind, also when the one
\* held was still outside its 300 s window, and the handle constructed by
\* the next establishment has a provider without a credential: the
\* credential request of that establishment always asks the identity
\* backend and never returns a token issued to an earlier handle.
C19_CredentialDiesWithHandle ==
  [][/\ client' = NoHandle => (token' = NoToken /\ token_expiry' = 0)
     /\ (/\ last'.op = "close"
         /\ token # NoToken /\ now < token_expiry - RefreshBuffer)
          => token' = NoToken
     /\ (acq'.built /\ cred'.called)
          => /\ cred'.backend
             /\ cred'.raised => (cred'.failed /\ token' = NoToken)
             /\ ~cred'.raised
                  => /\ cred'.ret = issued + 1
                     /\ token' = cred'.ret
                     /\ issued' = issued + 1]_vars

\* The second handle of the process has been constructed after a first one
\* that was issued a token, and its first credential request was answered
\* by the identity backend with a second token.
C19_Witness ==
  /\ acq.built /\ client = 2
  /\ cred.called /\ cred.backend /\ ~cred.raised
  /\ cred.ret = 2 /\ token = 2 /\ issued = 2

====
